---- MODULE Spec2Model ----
(***************************************************************************)
(* Model of the incremental batch-summarization stage of arxiv_summarizer  *)
(* (app/summarize_papers.py) together with the two dashboard handlers of   *)
(* app/generate_dashboard.py that write the processed store.               *)
(*                                                                         *)
(* Files on disk are sequences of rows.  A cell of a CSV file is a string  *)
(* ("" is an empty cell) or a day number (0 is an empty cell); ABSENT      *)
(* marks a column the file does not have.  pandas.read_csv turns an empty  *)
(* cell into NaN and DataFrame.to_csv writes NaN and "" as an empty cell.  *)
(* Days are counted from a Monday: day d has dayofweek d % 7.              *)
(* Of the fetched columns that no stage assigns (category, authors, link,  *)
(* published, fetched_at, fetched_week) a row carries category.            *)
(***************************************************************************)
EXTENDS Integers, Sequences, FiniteSets, TLC

\* ------------------------------------------------------------------ bounds
MaxRows == 3
MaxBatch == 2
MaxConc == 2
MaxDay == 2
MaxRuns == 2
MaxDashOps == 1
MaxStamp == 14
MaxCats == 2
MaxPerCat == 2

\* ------------------------------------------------------------ cell values
NaN == "NaN"
ABSENT == "ABSENT"
NaT == -1
AbsentTs == -2
WeekEmpty == [label |-> "", day |-> 0]
WeekNaN == [label |-> "NaN", day |-> 0]
WeekAbsent == [label |-> "ABSENT", day |-> 0]

NoAbstractSentinel == "No abstract available to summarize."
ErrorSentinel == "Error generating summary."
\* response.choices[0].message.content.strip(): the reply to the prompt built
\* from this title and this abstract
LLMReply(title, abstract) == "llm summary of " \o title \o ": " \o abstract
LLMText == LLMReply("A", "abstract")
DashText == "dashboard summary"
DashError == "ERROR: e"

Titles == {"A", "B"}

Min(a, b) == IF a < b THEN a ELSE b

Range(s) == {s[k] : k \in DOMAIN s}

\* ------------------------------------------------------------- utilities
\* a week that starts on Sunday
week_of_iso_sunday_start(ts) == [label |-> "Week of", day |-> ts - ((ts + 1) % 7)]

\* week_of_iso: the Monday of ts's week, formatted "Week of <date>".
week_of_iso(ts) == [label |-> "Week of", day |-> ts - (ts % 7)]

\* ------------------------------------------------------------ CSV layer
ReadStr(c) == IF c = "" THEN NaN ELSE c
ReadTs(c) == IF c = 0 THEN NaT ELSE c
ReadWeek(c) == IF c = WeekEmpty THEN WeekNaN ELSE c

ReadRow(r) ==
    [category |-> ReadStr(r.category),
     title |-> ReadStr(r.title),
     summary |-> ReadStr(r.summary),
     summary_short |-> ReadStr(r.summary_short),
     summary_updated |-> ReadTs(r.summary_updated),
     week_of_update |-> ReadWeek(r.week_of_update)]

\* pandas.read_csv: every empty cell becomes NaN.
read_csv(rows) == [k \in DOMAIN rows |-> ReadRow(rows[k])]

WriteStr(c) == IF c = NaN THEN "" ELSE c
WriteTs(c) == IF c = NaT THEN 0 ELSE c
WriteWeek(c) == IF c = WeekNaN THEN WeekEmpty ELSE c

WriteRow(r) ==
    [category |-> WriteStr(r.category),
     title |-> WriteStr(r.title),
     summary |-> WriteStr(r.summary),
     summary_short |-> WriteStr(r.summary_short),
     summary_updated |-> WriteTs(r.summary_updated),
     week_of_update |-> WriteWeek(r.week_of_update)]

\* DataFrame.to_csv(index=False): the whole frame, NaN as empty cells.
to_csv(frame) == [k \in DOMAIN frame |-> WriteRow(frame[k])]

\* a load that forgets .head(limit)
head_whole_frame(frame, n) == frame

\* DataFrame.head(n)
head(frame, n) == SubSeq(frame, 1, Min(n, Len(frame)))

\* ------------------------------------------------------------------ state
VARIABLES
    raw,                 \* data/raw/papers.csv: rows on disk
    processed,           \* data/processed/summarized.csv: [exists, rows]
    batch_size, concurrent_requests, limit,   \* arguments of summarize_all
    pc,                  \* position of the orchestrating thread
    df,                  \* the in-memory frame
    df_to_process,       \* df[mask]: <<[idx, title, summary], ...>>
    i,                   \* loop variable of the batch loop
    futures,             \* index labels of the current batch's futures
    workq,               \* work queue of the current executor
    calls,               \* idx -> [st, value, failed]: the worker call of row idx
    doneQ,               \* futures in completion order (as_completed)
    now,                 \* wall clock, in days
    proc,                \* the dashboard's cached load_processed()
    dashOps,             \* dashboard writes so far
    runs,                \* runs of summarize_all started so far
    submitted,           \* idx -> number of executor.submit in this run
    extCalls,            \* idx -> number of external service calls in this run
    batchLog,            \* batches dispatched in this run
    ckptLog,             \* row counts of the checkpoints of this run
    loadSnap,            \* the frame as loaded at the start of this run
    prevEnd,             \* how the previous run ended: [kind, ckpts, pending]
    rawExists,           \* data/raw/papers.csv exists
    newsletter,          \* output/newsletter.html has been written
    other                \* a second summarize_all process: [pc, df, df_to_process, i, ckpts]

vars == <<raw, rawExists, newsletter, other, processed, batch_size, concurrent_requests, limit, pc, df,
          df_to_process, i, futures, workq, calls, doneQ, now, proc, dashOps,
          runs, submitted, extCalls, batchLog, ckptLog, loadSnap, prevEnd>>

params == <<batch_size, concurrent_requests, limit>>
dash == <<proc, dashOps>>

total == Len(df_to_process)

\* ----------------------------------------------------------- input stores
\* A row as fetch_papers writes it: no summarization columns; title and
\* abstract are stripped, so a blank abstract is an empty cell.
FetchRow(t, a) ==
    [category |-> "cs.LG", title |-> t, summary |-> a, summary_short |-> ABSENT,
     summary_updated |-> AbsentTs, week_of_update |-> WeekAbsent]

\* A row of a store that already has the summarization columns.
StoreRow(t, a, s, u) ==
    [category |-> "cs.LG", title |-> t, summary |-> a, summary_short |-> s,
     summary_updated |-> u,
     week_of_update |-> IF u = 0 THEN WeekEmpty ELSE week_of_iso(u)]

FetchKinds == {FetchRow("A", "abstract"), FetchRow("B", "")}

StoreKinds == {StoreRow("B", " ", "", 0),
               StoreRow("A", "old summary", "old summary", 1)}

SeqsUpTo(S, n) == UNION {[1..m -> S] : m \in 1..n}

InputStores == SeqsUpTo(FetchKinds, MaxRows) \cup SeqsUpTo(StoreKinds, MaxRows)

\* ------------------------------------------------------- summarize_paper
\* outcome is what the external service does if it is called.
\* Result: [raised, value, called, failed]: the worker raised or returned
\* value; called says whether the external service was contacted; failed
\* says whether anything raised inside the worker.
summarize_paper(title, abstract, outcome) ==
    IF abstract = NaN
    THEN \* float has no .strip(): AttributeError escapes the worker
         [raised |-> TRUE, value |-> "", called |-> FALSE, failed |-> TRUE]
    ELSE IF abstract \in {"", " "}
    THEN [raised |-> FALSE, value |-> NoAbstractSentinel, called |-> FALSE,
          failed |-> FALSE]
    ELSE IF outcome = "raise"
    THEN \* the except clause of line 48
         [raised |-> FALSE, value |-> ErrorSentinel, called |-> TRUE,
          failed |-> TRUE]
    ELSE IF outcome = "empty"
    THEN \* line 47: the reply's content is empty or blank, .strip() gives ""
         [raised |-> FALSE, value |-> "", called |-> TRUE, failed |-> FALSE]
    ELSE [raised |-> FALSE, value |-> LLMReply(title, abstract), called |-> TRUE,
          failed |-> FALSE]

Outcomes == {"ok", "raise"}

\* every way a call ends: a text, an exception, an empty text
ReplyOutcomes == Outcomes \cup {"empty"}

\* ------------------------------------------------- summarize_all: loading
HasCol(frame, c, absent) == \E k \in DOMAIN frame : frame[k][c] # absent

\* if "<col>" not in df.columns: df["<col>"] = ""
AddMissingColumns(frame) ==
    [k \in DOMAIN frame |->
        [frame[k] EXCEPT
            !.summary_short =
                IF HasCol(frame, "summary_short", ABSENT) THEN @ ELSE "",
            !.summary_updated =
                IF HasCol(frame, "summary_updated", AbsentTs) THEN @ ELSE 0,
            !.week_of_update =
                IF HasCol(frame, "week_of_update", WeekAbsent) THEN @ ELSE WeekEmpty]]

\* the mask without the isna() test
mask_without_isna(row) == row.summary_short = ""

\* df["summary_short"].isna() | (df["summary_short"] == "")
mask(row) == row.summary_short = NaN \/ row.summary_short = ""

Indices(frame) == [k \in 1..Len(frame) |-> k]

\* df[mask], as the index labels and the two fields the workers are given
Pending(frame) ==
    LET idxs == SelectSeq(Indices(frame), LAMBDA k : mask(frame[k]))
    IN [n \in DOMAIN idxs |->
            [idx |-> idxs[n], title |-> frame[idxs[n]].title,
             summary |-> frame[idxs[n]].summary]]

\* pd.read_csv("data/raw/papers.csv").head(limit) plus the missing columns
LoadFrame(rawRows, lim) == AddMissingColumns(head(read_csv(rawRows), lim))

\* a slice one row too long, overlapping the next batch
Batch_overlapping(tp, from, size) ==
    SubSeq(tp, from + 1, Min(from + size + 1, Len(tp)))

\* df_to_process.iloc[i:i + batch_size]
Batch(tp, from, size) == SubSeq(tp, from + 1, Min(from + size, Len(tp)))

IdxOf(b) == [n \in DOMAIN b |-> b[n].idx]

NoCall == [st |-> "none", value |-> "", failed |-> FALSE]

\* ---------------------------------------------- summarize_all: collecting
\* a try-branch that stamps summary_updated and leaves week_of_update
CollectResult_no_week(frame, idx, summary_text, ts) ==
    [frame EXCEPT ![idx] =
        [@ EXCEPT !.summary_short = summary_text,
                  !.summary = summary_text,
                  !.summary_updated = ts]]

\* a try-branch that writes the text into the title column as well
CollectResult_into_title(frame, idx, summary_text, ts) ==
    [frame EXCEPT ![idx] =
        [@ EXCEPT !.summary_short = summary_text,
                  !.summary = summary_text,
                  !.title = summary_text,
                  !.summary_updated = ts,
                  !.week_of_update = week_of_iso(ts)]]

\* try-branch of the as_completed loop: the future returned summary_text
CollectResult(frame, idx, summary_text, ts) ==
    [frame EXCEPT ![idx] =
        [@ EXCEPT !.summary_short = summary_text,
                  !.summary = summary_text,
                  !.summary_updated = ts,
                  !.week_of_update = week_of_iso(ts)]]

\* an except-branch that only logs
CollectError_log_only(frame, idx) == frame

\* except-branch of the as_completed loop: future.result() raised
CollectError(frame, idx) ==
    [frame EXCEPT ![idx] = [@ EXCEPT !.summary_short = ErrorSentinel]]

\* ThreadPoolExecutor(max_workers=concurrent_requests): a queued call starts
\* only while fewer than max_workers calls of this executor are running
Running(cs, idxs) == {j \in idxs : cs[j].st = "running"}

\* a pool that starts every submitted call at once
WorkerFree_unbounded(cs, idxs, max_workers) == TRUE

WorkerFree(cs, idxs, max_workers) == Cardinality(Running(cs, idxs)) < max_workers

\* leaving the batch as soon as one future has been collected
BatchJoined_first_completed(cs, idxs) == \E j \in idxs : cs[j].st = "collected"

\* the as_completed loop has yielded every future and the with-block has
\* joined the workers
BatchJoined(cs, idxs) == \A j \in idxs : cs[j].st = "collected"

\* ------------------------------------------------------------------- Init
NoEnd == [kind |-> "none", ckpts |-> 0, pending |-> {}]

\* the second process has not been started
OtherIdle == [pc |-> "idle", df |-> <<>>, df_to_process |-> <<>>, i |-> 0, ckpts |-> 0]

\* nothing has run yet: no processed store, no frame, no dashboard cache
InitRest ==
    /\ processed = [exists |-> FALSE, rows |-> <<>>]
    /\ pc = "idle"
    /\ df = <<>>
    /\ df_to_process = <<>>
    /\ i = 0
    /\ futures = <<>>
    /\ workq = <<>>
    /\ calls = <<>>
    /\ doneQ = <<>>
    /\ proc = [loaded |-> FALSE, titles |-> <<>>]
    /\ dashOps = 0
    /\ runs = 0
    /\ submitted = <<>>
    /\ extCalls = <<>>
    /\ batchLog = <<>>
    /\ ckptLog = <<>>
    /\ loadSnap = <<>>
    /\ prevEnd = NoEnd
    /\ newsletter = FALSE
    /\ other = OtherIdle

Init ==
    /\ rawExists \in BOOLEAN
    /\ raw \in IF rawExists THEN InputStores ELSE {<<>>}
    /\ batch_size \in 1..MaxBatch
    /\ concurrent_requests \in 1..MaxConc
    /\ limit \in (MaxRows - 1)..MaxRows
    /\ now = 1
    /\ InitRest

\* ------------------------------------------------------------ summarize_all
PendingOnDisk(store) ==
    IF store.exists
    THEN {k \in DOMAIN store.rows : store.rows[k].summary_short \in {"", ABSENT}}
    ELSE {}

EndOfRun(kind) ==
    [kind |-> kind, ckpts |-> Len(ckptLog), pending |-> PendingOnDisk(processed)]

\* a loader that takes a missing file for an empty store, as load_raw does
FileFound_or_empty(exists) == TRUE

\* line 55: pd.read_csv opens the file or raises FileNotFoundError
FileFound(exists) == exists

\* lines 53-72: load, add the columns, compute the pending subset
Start ==
    /\ pc \in {"idle", "done"}
    /\ runs < MaxRuns
    /\ FileFound(rawExists)
    /\ runs' = runs + 1
    /\ df' = LoadFrame(raw, limit)
    /\ loadSnap' = df'
    /\ df_to_process' = Pending(df')
    /\ i' = 0
    /\ futures' = <<>>
    /\ workq' = <<>>
    /\ doneQ' = <<>>
    /\ calls' = [k \in DOMAIN df' |-> NoCall]
    /\ submitted' = [k \in DOMAIN df' |-> 0]
    /\ extCalls' = [k \in DOMAIN df' |-> 0]
    /\ batchLog' = <<>>
    /\ ckptLog' = <<>>
    /\ prevEnd' = IF pc = "done" THEN EndOfRun("done") ELSE prevEnd
    /\ pc' = IF Len(df_to_process') > 0 THEN "dispatch" ELSE "done"
    /\ UNCHANGED <<raw, rawExists, newsletter, other, processed, params, now, dash>>

\* line 55 raises FileNotFoundError: nothing catches it, the process exits
StartAbort ==
    /\ pc \in {"idle", "done"}
    /\ runs < MaxRuns
    /\ ~FileFound(rawExists)
    /\ runs' = runs + 1
    /\ prevEnd' = [kind |-> "aborted", ckpts |-> 0,
                   pending |-> PendingOnDisk(processed)]
    /\ pc' = "idle"
    /\ df' = <<>>
    /\ df_to_process' = <<>>
    /\ i' = 0
    /\ futures' = <<>>
    /\ workq' = <<>>
    /\ calls' = <<>>
    /\ doneQ' = <<>>
    /\ submitted' = <<>>
    /\ extCalls' = <<>>
    /\ batchLog' = <<>>
    /\ ckptLog' = <<>>
    /\ loadSnap' = <<>>
    /\ UNCHANGED <<raw, rawExists, newsletter, other, processed, params, now, dash>>

\* lines 75-83: slice the batch, create the executor, submit one call per row
Dispatch ==
    /\ pc = "dispatch"
    /\ LET batch == Batch(df_to_process, i, batch_size)
           idxs == IdxOf(batch)
       IN /\ futures' = idxs
          /\ workq' = idxs
          /\ calls' = [k \in DOMAIN calls |->
                          IF k \in Range(idxs)
                          THEN [NoCall EXCEPT !.st = "queued"] ELSE calls[k]]
          /\ submitted' = [k \in DOMAIN submitted |->
                          IF k \in Range(idxs) THEN submitted[k] + 1 ELSE submitted[k]]
          /\ batchLog' = Append(batchLog, idxs)
    /\ doneQ' = <<>>
    /\ pc' = "collect"
    /\ UNCHANGED <<raw, rawExists, newsletter, other, processed, params, df, df_to_process, i, now, dash,
                   runs, extCalls, ckptLog, loadSnap, prevEnd>>

\* a pool thread takes the next work item
WorkerStart ==
    /\ workq # <<>>
    /\ WorkerFree(calls, Range(futures), concurrent_requests)
    /\ calls' = [calls EXCEPT ![Head(workq)].st = "running"]
    /\ workq' = Tail(workq)
    /\ UNCHANGED <<raw, rawExists, newsletter, other, processed, params, pc, df, df_to_process, i, futures,
                   doneQ, now, dash, runs, submitted, extCalls, batchLog,
                   ckptLog, loadSnap, prevEnd>>

\* a closure over the loop variable, bound late: every call sees one row
ArgsOf_late_bound(idx) == df_to_process[1]

\* line 81: the arguments are evaluated at submit, from the row submitted
ArgsOf(idx) == CHOOSE e \in Range(df_to_process) : e.idx = idx

\* lines 31-50 run in a pool thread: the call returns or raises
WorkerFinish(idx, outcome) ==
    /\ calls[idx].st = "running"
    /\ LET r == summarize_paper(ArgsOf(idx).title, ArgsOf(idx).summary, outcome)
       IN /\ calls' = [calls EXCEPT ![idx] =
                          [st |-> IF r.raised THEN "raised" ELSE "returned",
                           value |-> r.value, failed |-> r.failed]]
          /\ extCalls' = [extCalls EXCEPT ![idx] = @ + (IF r.called THEN 1 ELSE 0)]
    /\ doneQ' = IF idx \in Range(futures) THEN Append(doneQ, idx) ELSE doneQ
    /\ UNCHANGED <<raw, rawExists, newsletter, other, processed, params, pc, df, df_to_process, i, futures,
                   workq, now, dash, runs, submitted, batchLog, ckptLog,
                   loadSnap, prevEnd>>

\* a running call returns a text, raises, or returns an empty text
WorkerReturns ==
    \E idx \in DOMAIN calls : \E outcome \in ReplyOutcomes : WorkerFinish(idx, outcome)

\* lines 85-99: one iteration of the as_completed loop
Collect ==
    /\ pc = "collect"
    /\ doneQ # <<>>
    /\ LET idx == Head(doneQ)
       IN /\ df' = IF calls[idx].st = "returned"
                   THEN CollectResult(df, idx, calls[idx].value, now)
                   ELSE CollectError(df, idx)
          /\ calls' = [calls EXCEPT ![idx].st = "collected"]
    /\ doneQ' = Tail(doneQ)
    /\ UNCHANGED <<raw, rawExists, newsletter, other, processed, params, pc, df_to_process, i, futures,
                   workq, now, dash, runs, submitted, extCalls, batchLog,
                   ckptLog, loadSnap, prevEnd>>

\* end of the as_completed loop and of the with-block
ExecutorExit ==
    /\ pc = "collect"
    /\ BatchJoined(calls, Range(futures))
    /\ pc' = "checkpoint"
    /\ UNCHANGED <<raw, rawExists, newsletter, other, processed, params, df, df_to_process, i, futures,
                   workq, calls, doneQ, now, dash, runs, submitted, extCalls,
                   batchLog, ckptLog, loadSnap, prevEnd>>

\* a save moved out of the batch loop: only the last batch is followed by a write
Checkpoint_after_last_batch ==
    /\ pc = "checkpoint"
    /\ processed' = IF i + batch_size >= total
                     THEN [exists |-> TRUE, rows |-> to_csv(df)]
                     ELSE processed
    /\ ckptLog' = Append(ckptLog, Len(df))
    /\ pc' = "cooldown"
    /\ UNCHANGED <<raw, rawExists, newsletter, other, params, df, df_to_process, i, futures, workq, calls,
                   doneQ, now, dash, runs, submitted, extCalls, batchLog,
                   loadSnap, prevEnd>>

\* a save of the rows of the current batch only
Checkpoint_current_batch_only ==
    /\ pc = "checkpoint"
    /\ processed' = [exists |-> TRUE,
                     rows |-> to_csv([n \in DOMAIN futures |-> df[futures[n]]])]
    /\ ckptLog' = Append(ckptLog, Len(df))
    /\ pc' = "cooldown"
    /\ UNCHANGED <<raw, rawExists, newsletter, other, params, df, df_to_process, i, futures,
                   workq, calls, doneQ, now, dash, runs, submitted, extCalls,
                   batchLog, loadSnap, prevEnd>>

\* line 102: df.to_csv("data/processed/summarized.csv", index=False)
Checkpoint ==
    /\ pc = "checkpoint"
    /\ processed' = [exists |-> TRUE, rows |-> to_csv(df)]
    /\ ckptLog' = Append(ckptLog, Len(processed'.rows))
    /\ pc' = "cooldown"
    /\ UNCHANGED <<raw, rawExists, newsletter, other, params, df, df_to_process, i, futures, workq, calls,
                   doneQ, now, dash, runs, submitted, extCalls, batchLog,
                   loadSnap, prevEnd>>

\* line 107 and the loop header of line 74: sleep, then the next batch
Cooldown ==
    /\ pc = "cooldown"
    /\ \E t \in {now, IF now < MaxDay THEN now + 1 ELSE now} : now' = t
    /\ i' = i + batch_size
    /\ pc' = IF i' < total THEN "dispatch" ELSE "done"
    /\ UNCHANGED <<raw, rawExists, newsletter, other, processed, params, df, df_to_process, futures, workq,
                   calls, doneQ, dash, runs, submitted, extCalls, batchLog,
                   ckptLog, loadSnap, prevEnd>>

\* the process is killed in the middle of a run: memory and threads are gone
Kill ==
    /\ pc \in {"dispatch", "collect", "checkpoint", "cooldown"}
    /\ prevEnd' = EndOfRun("killed")
    /\ pc' = "idle"
    /\ df' = <<>>
    /\ df_to_process' = <<>>
    /\ i' = 0
    /\ futures' = <<>>
    /\ workq' = <<>>
    /\ calls' = <<>>
    /\ doneQ' = <<>>
    /\ submitted' = <<>>
    /\ extCalls' = <<>>
    /\ batchLog' = <<>>
    /\ ckptLog' = <<>>
    /\ loadSnap' = <<>>
    /\ UNCHANGED <<raw, rawExists, newsletter, other, processed, params, now, dash, runs>>

\* ---------------------------------------------------------------- dashboard
\* The dashboard is a separate process.  The model lets its handlers run
\* while no run of summarize_all is in progress.
RawSample == 50

SchedulerAtRest == pc \in {"idle", "done"}

TitlesOf(rows) == [k \in DOMAIN rows |-> rows[k].title]

\* load_processed(), cached by st.cache_data: what later reruns see of it
DashLoad ==
    /\ SchedulerAtRest
    /\ ~proc.loaded
    /\ proc' = [loaded |-> TRUE,
                titles |-> IF processed.exists THEN TitlesOf(processed.rows) ELSE <<>>]
    /\ UNCHANGED <<raw, rawExists, newsletter, other, processed, params, pc, df, df_to_process, i, futures,
                   workq, calls, doneQ, now, dashOps, runs, submitted,
                   extCalls, batchLog, ckptLog, loadSnap, prevEnd>>

\* a save of the selected rows only: df_proc[mask].to_csv(...)
RegenerateRows_only_selected(frame, title, summary, ts) ==
    LET hit(r) == r.title = title
        upd(r) == [r EXCEPT !.summary = summary,
                            !.summary_updated = ts,
                            !.week_of_update = week_of_iso(ts)]
        sel == SelectSeq(frame, hit)
    IN [k \in DOMAIN sel |-> upd(sel[k])]

\* lines 259-262: the three assignments under the title mask
RegenerateRows(frame, title, summary, ts) ==
    [k \in DOMAIN frame |->
        IF frame[k].title = title
        THEN [frame[k] EXCEPT !.summary = summary,
                              !.summary_updated = ts,
                              !.week_of_update = week_of_iso(ts)]
        ELSE frame[k]]

\* lines 238-265: "Regenerate summary (LLM)"
Regenerate(sel_title, summary) ==
    /\ SchedulerAtRest
    /\ proc.loaded
    /\ proc.titles # <<>>
    /\ sel_title \in Range(proc.titles)
    /\ dashOps < MaxDashOps
    /\ processed' = [processed EXCEPT !.rows =
           to_csv(RegenerateRows(read_csv(processed.rows), sel_title, summary, now))]
    /\ dashOps' = dashOps + 1
    /\ UNCHANGED <<raw, rawExists, newsletter, other, params, pc, df, df_to_process, i, futures, workq,
                   calls, doneQ, now, proc, runs, submitted, extCalls,
                   batchLog, ckptLog, loadSnap, prevEnd>>

\* pd.concat(..., sort=False): a column one side lacks is filled with NaN
AlignColumns(frame) ==
    [k \in DOMAIN frame |->
        [frame[k] EXCEPT
            !.summary_short =
                IF @ = ABSENT /\ HasCol(frame, "summary_short", ABSENT) THEN NaN ELSE @,
            !.summary_updated =
                IF @ = AbsentTs /\ HasCol(frame, "summary_updated", AbsentTs) THEN NaT ELSE @,
            !.week_of_update =
                IF @ = WeekAbsent /\ HasCol(frame, "week_of_update", WeekAbsent)
                THEN WeekNaN ELSE @]]

\* lines 214-217: the raw row with summary, summary_updated, week_of_update
NewRow(r, summary, ts) ==
    [r EXCEPT !.summary = summary,
              !.summary_updated = ts,
              !.week_of_update = week_of_iso(ts)]

\* lines 192-225: "Generate summary" on a raw row while proc is empty
GenerateRaw(k, summary) ==
    /\ SchedulerAtRest
    /\ proc.loaded
    /\ proc.titles = <<>>
    /\ k \in 1..Min(RawSample, Len(raw))
    /\ dashOps < MaxDashOps
    /\ LET new_row == NewRow(read_csv(raw)[k], summary, now)
           df_proc == IF processed.exists
                      THEN AlignColumns(Append(read_csv(processed.rows), new_row))
                      ELSE <<new_row>>
       IN processed' = [exists |-> TRUE, rows |-> to_csv(df_proc)]
    /\ dashOps' = dashOps + 1
    /\ UNCHANGED <<raw, rawExists, newsletter, other, params, pc, df, df_to_process, i, futures, workq,
                   calls, doneQ, now, proc, runs, submitted, extCalls,
                   batchLog, ckptLog, loadSnap, prevEnd>>

DashSummaries == {DashText, DashError}

\* newsletter_generator.py: line 6 reads summarized.csv (FileNotFoundError
\* when it is missing), line 8 needs the summary_short column (KeyError
\* otherwise), lines 161-162 write output/newsletter.html
Newsletter ==
    /\ SchedulerAtRest
    /\ processed.exists
    /\ HasCol(processed.rows, "summary_short", ABSENT)
    /\ newsletter' = TRUE
    /\ UNCHANGED <<raw, rawExists, other, processed, params, pc, df, df_to_process,
                   i, futures, workq, calls, doneQ, now, proc, dashOps, runs,
                   submitted, extCalls, batchLog, ckptLog, loadSnap, prevEnd>>

\* ------------------------------------------------------------------- Next
Next ==
    \/ Start
    \/ StartAbort
    \/ Dispatch
    \/ WorkerStart
    \/ \E idx \in DOMAIN calls : \E outcome \in Outcomes : WorkerFinish(idx, outcome)
    \/ Collect
    \/ ExecutorExit
    \/ Checkpoint
    \/ Cooldown
    \/ Kill
    \/ DashLoad
    \/ \E t \in Titles : \E s \in DashSummaries : Regenerate(t, s)
    \/ \E k \in 1..MaxRows : \E s \in DashSummaries : GenerateRaw(k, s)

Spec == Init /\ [][Next]_vars

\* One process lifetime of the scheduler: summarize_all is started once and
\* runs until it returns or is killed; the dashboard is used before and after.
FirstStart == runs = 0 /\ Start
FirstAbort == runs = 0 /\ StartAbort

NextOneRun ==
    \/ FirstStart
    \/ FirstAbort
    \/ Dispatch
    \/ WorkerStart
    \/ \E idx \in DOMAIN calls : \E outcome \in Outcomes : WorkerFinish(idx, outcome)
    \/ Collect
    \/ ExecutorExit
    \/ Checkpoint
    \/ Cooldown
    \/ Kill
    \/ DashLoad
    \/ \E t \in Titles : \E s \in DashSummaries : Regenerate(t, s)
    \/ \E k \in 1..MaxRows : \E s \in DashSummaries : GenerateRaw(k, s)

SpecOneRun == Init /\ [][NextOneRun]_vars

\* One process lifetime of the scheduler with its largest parameters, the
\* dashboard and the newsletter generator.
InitDash ==
    /\ rawExists \in BOOLEAN
    /\ raw \in IF rawExists THEN InputStores ELSE {<<>>}
    /\ batch_size = MaxBatch
    /\ concurrent_requests = MaxConc
    /\ limit = MaxRows
    /\ now = 1
    /\ InitRest

NextDash ==
    \/ FirstStart
    \/ FirstAbort
    \/ Dispatch
    \/ WorkerStart
    \/ \E idx \in DOMAIN calls : \E outcome \in Outcomes : WorkerFinish(idx, outcome)
    \/ Collect
    \/ ExecutorExit
    \/ Checkpoint
    \/ Cooldown
    \/ Kill
    \/ DashLoad
    \/ \E t \in Titles : \E s \in DashSummaries : Regenerate(t, s)
    \/ \E k \in 1..MaxRows : \E s \in DashSummaries : GenerateRaw(k, s)
    \/ Newsletter

SpecDash == InitDash /\ [][NextDash]_vars

\* ------------------------------------------------------------ fetch stage
\* fetch_arxiv.py lines 10-16
CATEGORIES == <<"cs.LG", "cs.CV", "cs.AI", "cs.CL", "stat.ML">>

\* the first MaxCats categories are fetched, MaxPerCat papers of each
Categories == SubSeq(CATEGORIES, 1, Min(MaxCats, Len(CATEGORIES)))

\* the feed's papers in submission order, and their abstracts
TitleOrder == <<"A", "B">>
AbstractOf(t) == IF t = "A" THEN "abstract" ELSE ""

\* what the feed lists: title -> the categories the paper is listed in
\* (its primary category and its cross-lists)
Listings == [Titles -> SUBSET Range(Categories)]

\* lines 33-55: the entries of one category's feed, at most max_results
fetch_papers(category, max_results, listing) ==
    LET InCat(t) == category \in listing[t]
        entries == SelectSeq(TitleOrder, InCat)
        n == Min(max_results, Len(entries))
    IN [k \in 1..n |->
           [FetchRow(entries[k], AbstractOf(entries[k])) EXCEPT !.category = category]]

\* lines 61-65: all_papers.extend(papers) for each category in turn
RECURSIVE all_papers(_, _, _)
all_papers(n, per_category, listing) ==
    IF n = 0 THEN <<>>
    ELSE all_papers(n - 1, per_category, listing)
             \o fetch_papers(Categories[n], per_category, listing)

\* lines 57-76: fetch_all_categories() writes data/raw/papers.csv
Fetch ==
    /\ SchedulerAtRest
    /\ \E listing \in Listings :
           raw' = all_papers(Len(Categories), MaxPerCat, listing)
    /\ rawExists' = TRUE
    /\ UNCHANGED <<newsletter, other, processed, params, pc, df, df_to_process, i,
                   futures, workq, calls, doneQ, now, proc, dashOps, runs,
                   submitted, extCalls, batchLog, ckptLog, loadSnap, prevEnd>>

\* The pipeline from an empty data directory: fetch, one process lifetime of
\* the scheduler, the dashboard.
InitFetch ==
    /\ rawExists = FALSE
    /\ raw = <<>>
    /\ batch_size = MaxBatch
    /\ concurrent_requests = MaxConc
    /\ limit = MaxRows
    /\ now = 1
    /\ InitRest

NextFetch ==
    \/ Fetch
    \/ FirstStart
    \/ FirstAbort
    \/ Dispatch
    \/ WorkerStart
    \/ \E idx \in DOMAIN calls : \E outcome \in Outcomes : WorkerFinish(idx, outcome)
    \/ Collect
    \/ ExecutorExit
    \/ Checkpoint
    \/ Cooldown
    \/ Kill
    \/ DashLoad
    \/ \E t \in Titles : \E s \in DashSummaries : Regenerate(t, s)
    \/ \E k \in 1..MaxRows : \E s \in DashSummaries : GenerateRaw(k, s)

SpecFetch == InitFetch /\ [][NextFetch]_vars

\* One run over papers with different titles and abstracts, with the largest
\* batch and pool, so that calls of one batch complete in any order.
PlacementKinds == {FetchRow("A", "abstract"), FetchRow("B", "abstract of B")}

InitPlacement ==
    /\ rawExists = TRUE
    /\ raw \in SeqsUpTo(PlacementKinds, MaxRows)
    /\ batch_size = MaxBatch
    /\ concurrent_requests = MaxConc
    /\ limit = MaxRows
    /\ now = 1
    /\ InitRest

NextPlacement ==
    \/ FirstStart
    \/ Dispatch
    \/ WorkerStart
    \/ WorkerReturns
    \/ Collect
    \/ ExecutorExit
    \/ Checkpoint
    \/ Cooldown
    \/ Kill

SpecPlacement == InitPlacement /\ [][NextPlacement]_vars

\* One run that nothing interrupts: the raw store exists, the process is not
\* killed, every thread keeps running and every call returns or raises.
InitLive ==
    /\ rawExists = TRUE
    /\ raw \in InputStores
    /\ batch_size \in 1..MaxBatch
    /\ concurrent_requests \in 1..MaxConc
    /\ limit \in (MaxRows - 1)..MaxRows
    /\ now = 1
    /\ InitRest

\* the steps of the orchestrating thread
Orchestrator ==
    \/ FirstStart
    \/ Dispatch
    \/ Collect
    \/ ExecutorExit
    \/ Checkpoint
    \/ Cooldown

NextLive ==
    \/ Orchestrator
    \/ WorkerStart
    \/ WorkerReturns

SpecLive ==
    /\ InitLive
    /\ [][NextLive]_vars
    /\ WF_vars(Orchestrator)
    /\ WF_vars(WorkerStart)
    /\ WF_vars(WorkerReturns)

\* ------------------------------------------------- a second summarize_all
\* A second process runs the same program with the same arguments against the
\* same files.  Its frame is its own; what it shares with the first process
\* is the raw store it reads and the processed store it writes.

\* lines 53-72 in the second process
OtherStart ==
    /\ other.pc = "idle"
    /\ FileFound(rawExists)
    /\ LET frame == LoadFrame(raw, limit)
           tp == Pending(frame)
       IN other' = [pc |-> IF Len(tp) > 0 THEN "batch" ELSE "done",
                    df |-> frame, df_to_process |-> tp, i |-> 0, ckpts |-> 0]
    /\ UNCHANGED <<raw, rawExists, newsletter, processed, params, pc, df,
                   df_to_process, i, futures, workq, calls, doneQ, now, dash,
                   runs, submitted, extCalls, batchLog, ckptLog, loadSnap,
                   prevEnd>>

\* lines 85-99 for the first n rows of a batch: each future's result, or the
\* error sentinel when it raised, is assigned at its index label
RECURSIVE CollectBatch(_, _, _, _, _)
CollectBatch(frame, batch, outs, n, ts) ==
    IF n = 0 THEN frame
    ELSE LET prev == CollectBatch(frame, batch, outs, n - 1, ts)
             r == summarize_paper(batch[n].title, batch[n].summary, outs[n])
         IN IF r.raised
            THEN CollectError(prev, batch[n].idx)
            ELSE CollectResult(prev, batch[n].idx, r.value, ts)

\* lines 75-99 in the second process: one batch, submitted and collected
OtherBatch ==
    /\ other.pc = "batch"
    /\ LET batch == Batch(other.df_to_process, other.i, batch_size)
       IN \E outs \in [DOMAIN batch -> Outcomes] :
              other' = [other EXCEPT
                           !.df = CollectBatch(other.df, batch, outs, Len(batch), now),
                           !.pc = "checkpoint"]
    /\ UNCHANGED <<raw, rawExists, newsletter, processed, params, pc, df,
                   df_to_process, i, futures, workq, calls, doneQ, now, dash,
                   runs, submitted, extCalls, batchLog, ckptLog, loadSnap,
                   prevEnd>>

\* lines 102-107 and the loop header in the second process: its whole frame
\* is written over data/processed/summarized.csv
OtherCheckpoint ==
    /\ other.pc = "checkpoint"
    /\ processed' = [exists |-> TRUE, rows |-> to_csv(other.df)]
    /\ other' = [other EXCEPT
                    !.i = @ + batch_size,
                    !.ckpts = @ + 1,
                    !.pc = IF other.i + batch_size < Len(other.df_to_process)
                           THEN "batch" ELSE "done"]
    /\ UNCHANGED <<raw, rawExists, newsletter, params, pc, df, df_to_process,
                   i, futures, workq, calls, doneQ, now, dash, runs, submitted,
                   extCalls, batchLog, ckptLog, loadSnap, prevEnd>>

\* Two processes started on a freshly fetched raw store.
InitTwo ==
    /\ rawExists = TRUE
    /\ raw \in SeqsUpTo(FetchKinds, MaxRows)
    /\ batch_size \in 1..MaxBatch
    /\ concurrent_requests = 1
    /\ limit = MaxRows
    /\ now = 1
    /\ InitRest

NextTwo ==
    \/ FirstStart
    \/ Dispatch
    \/ WorkerStart
    \/ \E idx \in DOMAIN calls : \E outcome \in Outcomes : WorkerFinish(idx, outcome)
    \/ Collect
    \/ ExecutorExit
    \/ Checkpoint
    \/ Cooldown
    \/ OtherStart
    \/ OtherBatch
    \/ OtherCheckpoint

SpecTwo == InitTwo /\ [][NextTwo]_vars

\* One run over a one-row store, started on any day of two weeks.
InitWeek ==
    /\ rawExists \in BOOLEAN
    /\ raw \in IF rawExists THEN [1..1 -> FetchKinds \cup StoreKinds] ELSE {<<>>}
    /\ batch_size = 1
    /\ concurrent_requests = 1
    /\ limit = 1
    /\ now \in 1..MaxStamp
    /\ InitRest

SpecWeek == InitWeek /\ [][NextOneRun]_vars

\* ======================================================== the claims
IsSetTs(u) == u \notin {NaT, 0, AbsentTs}
IsSetWeek(w) == w.label = "Week of"

RunActive == pc \notin {"idle"}

\* the rows of the raw store a run considers, and those pending at load time
Considered == 1..Min(limit, Len(raw))
PendingAtLoad(k) == raw[k].summary_short \in {"", ABSENT}
PendIdxAtLoad == SelectSeq([k \in Considered |-> k], LAMBDA k : PendingAtLoad(k))

BlankAbstract(k) == raw[k].summary \in {"", " "}

BatchCollected == pc \in {"checkpoint", "cooldown"}

\* C1: a run restarted after a kill that followed the k-th checkpoint (k >= 1)
\* submits exactly the rows that were still pending in that checkpoint.
C1_ResumeFromCheckpoint ==
    (RunActive /\ prevEnd.kind = "killed" /\ prevEnd.ckpts >= 1)
        => Range(IdxOf(df_to_process)) = prevEnd.pending

\* C2: a run started right after a completed run finds nothing pending,
\* submits no call and writes no checkpoint.
C2_SecondRunIsNoOp ==
    (RunActive /\ prevEnd.kind = "done")
        => /\ df_to_process = <<>>
           /\ \A k \in DOMAIN submitted : submitted[k] = 0
           /\ ckptLog = <<>>

\* C3: within one run a row is submitted iff it is among the first limit
\* rows and its summary_short is empty or absent at load time, at most once
\* (exactly once when the run is done); a row whose summary_short is
\* non-empty at load time is neither submitted nor modified.
C3_PendingPredicate ==
    RunActive =>
        /\ DOMAIN submitted = Considered
        /\ \A k \in Considered :
            /\ submitted[k] <= 1
            /\ submitted[k] = 1 => PendingAtLoad(k)
            /\ (pc = "done" /\ PendingAtLoad(k)) => submitted[k] = 1
            /\ ~PendingAtLoad(k) =>
                   /\ submitted[k] = 0
                   /\ extCalls[k] = 0
                   /\ df[k] = loadSnap[k]
                   /\ to_csv(df)[k] = raw[k]

C3_Witness ==
    /\ pc = "done"
    /\ \E j, k \in Considered :
          /\ PendingAtLoad(j) /\ submitted[j] = 1
          /\ ~PendingAtLoad(k) /\ submitted[k] = 0

\* ceil(P/B) and the n-th consecutive slice of the pending subset
NumBatches == (Len(PendIdxAtLoad) + batch_size - 1) \div batch_size

ExpectedBatch(n) ==
    SubSeq(PendIdxAtLoad, (n - 1) * batch_size + 1,
           Min(n * batch_size, Len(PendIdxAtLoad)))

\* C4: the run dispatches exactly ceil(P/B) batches, the n-th being the n-th
\* consecutive slice of size B (the last possibly shorter) of the pending
\* subset in store order, and writes the store once per batch, every write
\* holding all rows of the in-memory frame.
C4_BatchesAndCheckpoints ==
    RunActive =>
        /\ Len(batchLog) <= NumBatches
        /\ \A n \in DOMAIN batchLog : batchLog[n] = ExpectedBatch(n)
        /\ \A n \in DOMAIN ckptLog : ckptLog[n] = Len(df)
        /\ Len(ckptLog) =
               Len(batchLog) - (IF pc \in {"collect", "checkpoint"} THEN 1 ELSE 0)
        /\ pc = "done" =>
               /\ Len(batchLog) = NumBatches
               /\ Len(ckptLog) = NumBatches

C4_Witness ==
    /\ pc = "done"
    /\ batch_size = 2
    /\ Len(df) = 3
    /\ Len(batchLog) = 2
    /\ Len(batchLog[1]) = 2
    /\ Len(batchLog[2]) = 1
    /\ ckptLog = <<3, 3>>

\* a call that has been submitted and not yet collected
Outstanding(k) == calls[k].st \in {"queued", "running", "returned", "raised"}

\* C5: while any call of batch N+1 exists, every call of the batches up to N
\* has completed and been collected and N checkpoints have been written.
C5_BatchBarrier ==
    RunActive =>
        /\ \A k \in DOMAIN calls : Outstanding(k) =>
               /\ pc = "collect"
               /\ k \in Range(batchLog[Len(batchLog)])
        /\ \A n \in DOMAIN batchLog : n < Len(batchLog) =>
               /\ \A k \in Range(batchLog[n]) : calls[k].st = "collected"
               /\ Len(ckptLog) >= n

C5_Witness ==
    /\ pc = "collect"
    /\ Len(batchLog) = 2
    /\ Len(ckptLog) = 1
    /\ \E k \in Range(batchLog[2]) : calls[k].st = "running"

\* the calls executing in a pool thread
InFlight == {k \in DOMAIN calls : calls[k].st = "running"}

\* C6: at most concurrent_requests calls are in flight, and none is in flight
\* or waiting when a batch's pool is about to be created.
C6_BoundedConcurrency ==
    /\ Cardinality(InFlight) <= concurrent_requests
    /\ pc = "dispatch" => \A k \in DOMAIN calls : calls[k].st \in {"none", "collected"}

C6_Witness ==
    /\ pc = "collect"
    /\ Cardinality(InFlight) = concurrent_requests
    /\ workq # <<>>

\* C7: when the collection of a batch is over, every row of the batch has
\* been collected; a row whose call raised (in the service call or elsewhere
\* in the worker) holds the error sentinel and every other row of the batch
\* holds the result of its own call.
C7_FailureIsolation ==
    BatchCollected =>
        \A k \in Range(futures) :
            /\ calls[k].st = "collected"
            /\ calls[k].failed => df[k].summary_short = ErrorSentinel
            /\ ~calls[k].failed =>
                   /\ df[k].summary_short = calls[k].value
                   /\ df[k].summary_short # ErrorSentinel

C7_Witness ==
    /\ pc = "checkpoint"
    /\ \E j, k \in Range(futures) :
          /\ calls[j].failed /\ df[j].summary_short = ErrorSentinel
          /\ ~calls[k].failed /\ df[k].summary_short = LLMText

\* C8: a pending row whose abstract is missing, empty or whitespace-only gets
\* the "no abstract" sentinel and no call to the external service is made.
C8_BlankAbstractShortCircuit ==
    BatchCollected =>
        \A k \in Range(futures) : BlankAbstract(k) =>
            /\ df[k].summary_short = NoAbstractSentinel
            /\ extCalls[k] = 0

\* C9: after the collection phase every row of the batch has a non-empty
\* summary_updated, rows given the error sentinel included.
C9_BatchRowsStamped ==
    BatchCollected =>
        \A k \in Range(futures) : IsSetTs(df[k].summary_updated)

StampedTogether(rows) ==
    \A k \in DOMAIN rows :
        IsSetTs(rows[k].summary_updated) <=> IsSetWeek(rows[k].week_of_update)

\* C10: in every row of the in-memory frame and of the durable stores,
\* summary_updated is set iff week_of_update is set.
C10_UpdatedIffWeek ==
    /\ StampedTogether(df)
    /\ StampedTogether(processed.rows)
    /\ StampedTogether(raw)

C10_Witness ==
    /\ dashOps > 0
    /\ \E j, k \in DOMAIN processed.rows :
          /\ processed.rows[j].summary \in DashSummaries
          /\ IsSetTs(processed.rows[j].summary_updated)
          /\ processed.rows[k].summary_short = ErrorSentinel
          /\ ~IsSetTs(processed.rows[k].summary_updated)

WeekOfIsoCorrect(u, w) ==
    /\ w.label = "Week of"
    /\ w.day <= u
    /\ u - w.day \in 0..6
    /\ w.day % 7 = 0

StampedRowsCorrect(rows) ==
    \A k \in DOMAIN rows : IsSetWeek(rows[k].week_of_update) =>
        /\ rows[k].week_of_update = week_of_iso(rows[k].summary_updated)
        /\ WeekOfIsoCorrect(rows[k].summary_updated, rows[k].week_of_update)

\* C11: week_of_iso(ts) is "Week of D" with D the Monday of the week of ts
\* (D <= ts, ts - D within 0..6 days, D a Monday), and every row whose
\* week_of_update is set holds week_of_iso of its summary_updated.
C11_WeekOfUpdate ==
    /\ WeekOfIsoCorrect(now, week_of_iso(now))
    /\ StampedRowsCorrect(df)
    /\ StampedRowsCorrect(processed.rows)

\* a row stamped on a Wednesday (day 9) carries the Monday before (day 7)
C11_Witness ==
    \E k \in DOMAIN df :
        /\ calls[k].st = "collected"
        /\ df[k].summary_updated = 9
        /\ df[k].week_of_update = [label |-> "Week of", day |-> 7]

\* C12: only the first limit rows of the store, in their original order, are
\* candidates; a row beyond the limit is not in the frame, is never submitted
\* and has no call, even when it is pending.
C12_LimitTruncation ==
    RunActive =>
        /\ Len(df) <= limit
        /\ \A k \in DOMAIN df : df[k].title = ReadStr(raw[k].title)
        /\ \A n \in DOMAIN df_to_process :
              /\ df_to_process[n].idx <= limit
              /\ n > 1 => df_to_process[n - 1].idx < df_to_process[n].idx
        /\ \A k \in DOMAIN raw : k > limit =>
              /\ k \notin DOMAIN df
              /\ k \notin DOMAIN submitted
              /\ k \notin DOMAIN calls

C12_Witness ==
    /\ pc = "done"
    /\ Len(raw) > limit
    /\ PendingAtLoad(Len(raw))
    /\ \E k \in DOMAIN submitted : submitted[k] = 1

\* C13: after every checkpoint of a run, every row that was in the durable
\* store when the run loaded it is still in the durable store.
C13_NoRowDeleted ==
    pc = "cooldown" =>
        \A k \in DOMAIN raw :
            /\ k \in DOMAIN processed.rows
            /\ processed.rows[k].title = raw[k].title

\* C14 as stated: a run leaves category, title and the abstract text (the
\* summary column) of every row as they were loaded.
C14_FetchedFieldsUnchanged ==
    RunActive =>
        \A k \in DOMAIN df :
            /\ df[k].category = loadSnap[k].category
            /\ df[k].title = loadSnap[k].title
            /\ df[k].summary = loadSnap[k].summary

\* C14 amended: a run leaves category and title of every row as loaded; the
\* summary column either is as loaded or, for a collected row whose call
\* returned, holds the same text as summary_short.
C14_FrameOfScheduler ==
    RunActive =>
        \A k \in DOMAIN df :
            /\ df[k].category = loadSnap[k].category
            /\ df[k].title = loadSnap[k].title
            /\ \/ df[k].summary = loadSnap[k].summary
               \/ /\ calls[k].st = "collected"
                  /\ df[k].summary = df[k].summary_short
                  /\ IsSetTs(df[k].summary_updated)

C14_Witness ==
    /\ pc = "done"
    /\ \E j, k \in DOMAIN df :
          /\ df[j].summary # loadSnap[j].summary
          /\ df[j].summary = df[j].summary_short
          /\ df[k].summary_short = ErrorSentinel
          /\ df[k].summary = loadSnap[k].summary

\* row k of the frame holds the collected result of a call of this run
SummarizedInRun(k) == calls[k].st = "collected"

\* the processed store holds row k with the summary the frame holds
OnDisk(k) ==
    /\ processed.exists
    /\ k \in DOMAIN processed.rows
    /\ processed.rows[k].title = df[k].title
    /\ processed.rows[k].summary_short = WriteStr(df[k].summary_short)

\* the rows summarized in memory whose summary is not on disk
Unsaved == {k \in DOMAIN df : SummarizedInRun(k) /\ ~OnDisk(k)}

\* C15: at every point of a run at most the current batch is not yet
\* checkpointed, every row of a checkpointed batch is on disk with its
\* summary, and the rows summarized in memory but not on disk are rows of the
\* current batch, at most batch_size of them.
C15_CrashLossBound ==
    RunActive =>
        /\ Len(ckptLog) >= Len(batchLog) - 1
        /\ \A n \in DOMAIN batchLog : n <= Len(ckptLog) =>
               \A k \in Range(batchLog[n]) : SummarizedInRun(k) /\ OnDisk(k)
        /\ Unsaved \subseteq Range(futures)
        /\ Cardinality(Unsaved) <= batch_size

C15_Witness ==
    /\ pc = "collect"
    /\ Len(batchLog) = 2
    /\ Len(ckptLog) = 1
    /\ Unsaved # {}
    /\ \A k \in Range(batchLog[1]) : OnDisk(k)

\* a later run that has not checkpointed yet: the processed store still is
\* what the previous run, which checkpointed, left
LaterRunOverCheckpoint ==
    /\ runs >= 2
    /\ RunActive
    /\ ckptLog = <<>>
    /\ prevEnd.ckpts > 0
    /\ processed.exists

\* C16: a row whose summary_short is the error sentinel in the checkpoint of
\* an earlier run is not submitted to the summarization client by a later run.
C16_FailedRowsTerminal ==
    LaterRunOverCheckpoint =>
        \A k \in DOMAIN processed.rows \cap DOMAIN submitted :
            processed.rows[k].summary_short = ErrorSentinel => submitted[k] = 0

\* C17: when data/raw/papers.csv is absent, a started run of summarize_all
\* ends aborted with no call submitted or made, no checkpoint written (the
\* processed store does not exist) and no cooldown taken (the clock of the
\* run has not moved and the scheduler is at no position of the batch loop).
C17_StoreMissingIsFatal ==
    ~rawExists =>
        /\ pc = "idle"
        /\ runs > 0 => prevEnd.kind = "aborted"
        /\ calls = <<>> /\ submitted = <<>> /\ extCalls = <<>>
        /\ batchLog = <<>> /\ ckptLog = <<>>
        /\ ~processed.exists
        /\ now = 1

C17_Witness ==
    /\ ~rawExists
    /\ runs > 0
    /\ prevEnd.kind = "aborted"

\* a step of the dashboard (load, regenerate, generate) or of the newsletter
\* generator, told by what only they change
DownstreamStep == proc' # proc \/ dashOps' # dashOps \/ newsletter' # newsletter

\* a cell's text on disk: a column the file lacks reads as no text
CellText(c) == IF c = ABSENT THEN "" ELSE c

KeepsRows ==
    processed.exists =>
        /\ processed'.exists
        /\ Len(processed'.rows) >= Len(processed.rows)
        /\ \A k \in DOMAIN processed.rows :
               /\ processed'.rows[k].title = processed.rows[k].title
               /\ processed'.rows[k].category = processed.rows[k].category
               /\ CellText(processed'.rows[k].summary_short)
                      = CellText(processed.rows[k].summary_short)

\* C18 as stated: no step of the dashboard or the newsletter generator
\* changes the processed store.
C18_DownstreamReadOnly == [][DownstreamStep => processed' = processed]_vars

\* C18: the newsletter generator and the dashboard's loader leave the
\* processed store as it is; a dashboard write removes no row and leaves
\* title, category and summary_short of every existing row as they were.
C18_DownstreamFrame ==
    [][DownstreamStep =>
          /\ KeepsRows
          /\ (newsletter' # newsletter \/ proc' # proc) => processed' = processed
      ]_vars

C18_Witness ==
    /\ newsletter
    /\ dashOps > 0
    /\ Len(processed.rows) >= 2
    /\ \E k \in DOMAIN processed.rows : processed.rows[k].summary = DashText

UniqueTitles(rows) ==
    \A j, k \in DOMAIN rows : rows[j].title = rows[k].title => j = k

\* C19: no two rows of the raw store written by the fetch stage have the
\* same title, and no two rows of the processed store maintained by the
\* scheduler and the dashboard have the same title.
C19_TitleUniqueness ==
    /\ UniqueTitles(raw)
    /\ processed.exists => UniqueTitles(processed.rows)

\* what a call made with row k's own title and abstract can give
OwnResults(k) ==
    {summarize_paper(loadSnap[k].title, loadSnap[k].summary, o) : o \in ReplyOutcomes}

\* C20: in every state of a run, whatever the order in which the calls of a
\* batch completed, a row whose call has been collected holds the result of
\* the call made with its own title and abstract, and a row whose call has
\* not been collected yet (queued, running or completed in a worker) is as it
\* was loaded: only the collecting thread writes the frame.
C20_ResultPlacement ==
    RunActive =>
        \A k \in DOMAIN df :
            IF calls[k].st = "collected"
            THEN \E r \in OwnResults(k) :
                     /\ ~r.raised
                     /\ r.failed = calls[k].failed
                     /\ r.value = calls[k].value
                     /\ df[k].summary_short = r.value
                     /\ df[k].summary = r.value
            ELSE df[k] = loadSnap[k]

\* a later-submitted call of the batch is collected while an earlier one of
\* another paper is still running
C20_Witness ==
    /\ pc = "collect"
    /\ \E j, k \in Range(futures) :
          /\ j < k
          /\ df[j].title # df[k].title
          /\ calls[j].st = "running"
          /\ calls[k].st = "collected"
          /\ ~calls[k].failed
          /\ df[k].summary_short = LLMReply(loadSnap[k].title, loadSnap[k].summary)

\* no row of the loaded frame matches the pending predicate
NonePending == \A k \in DOMAIN df : ~mask(df[k])

\* the termination half of C21 alone
EventuallyDone == <>(pc = "done")

\* C21: an uninterrupted run whose calls all return or raise eventually
\* reaches DONE, and at DONE no row within the limit is pending: every such
\* row has a non-empty summary_short.
C21_Termination ==
    /\ <>(pc = "done")
    /\ [](pc = "done" => NonePending)

\* the rows of the batches the first process has checkpointed in this run
CheckpointedByFirst == UNION {Range(batchLog[n]) : n \in 1..Len(ckptLog)}

\* a summary the first process checkpointed is not what the disk holds
LostUpdate == \E k \in CheckpointedByFirst : ~OnDisk(k)

\* C22: with two processes on the same store, a summary that the first
\* process has checkpointed in its run is missing from the processed store
\* only after the second process has written a checkpoint of its own; a
\* process whose checkpoints are the only ones never loses one.
C22_LostUpdateOnlyByOther ==
    RunActive => (LostUpdate => other.ckpts > 0)

\* the lost update: the first process is still running, a summary it has
\* checkpointed was overwritten by the second process's frame, in which the
\* row is still empty
C22_Witness ==
    /\ pc \in {"dispatch", "collect", "checkpoint", "cooldown"}
    /\ other.ckpts > 0
    /\ \E k \in CheckpointedByFirst :
          /\ df[k].summary_short = LLMText
          /\ processed.rows[k].summary_short = ""

====
